---- MODULE Spec2Model ----
(***************************************************************************)
(* Model of odoo_addons_analyzer/code.py: the PyFile scanner, the OdooModel *)
(* classifier/extractor, OdooField, OdooMethod and ast_to_string.           *)
(*                                                                         *)
(* Syntax-tree nodes are records carrying a "kind" (the ast class) and the  *)
(* fields that ast class has.  Python values are tagged records.  A call    *)
(* of a Python function yields either Ret(v) or Raise(e).                   *)
(***************************************************************************)
EXTENDS Integers, Sequences, FiniteSets, TLC

VARIABLES
    pc,       \* where the running call stands
    path,     \* the path given to PyFile
    source,   \* what the parser yields for the file (or the node under analysis)
    content,  \* PyFile.content: the body of the parsed module
    heap,     \* where this parse allocated its nodes
    idx,      \* position of the loop of PyFile._get_models in content
    models,   \* the mapping built by PyFile._get_models
    events,   \* file accesses performed so far
    obj,      \* attributes of the OdooModel / OdooMethod under construction
    ret,      \* outcome of the last call
    prev      \* PyFile.to_dict() of an earlier run on the same file

vars == <<pc, path, source, content, heap, idx, models, events, obj, ret, prev>>

Null == [null |-> TRUE]

-----------------------------------------------------------------------------
(* Python values *)

PyNone == [t |-> "NoneType"]
PyStr(s) == [t |-> "str", s |-> s]
PyBool(b) == [t |-> "bool", b |-> b]
PyInt(n) == [t |-> "int", n |-> n]
PyTuple(elts) == [t |-> "tuple", elts |-> elts]
PyDict(items) == [t |-> "dict", items |-> items]

\* bool(v)
Truthy(v) ==
    CASE v.t = "NoneType" -> FALSE
      [] v.t = "str" -> v.s # ""
      [] v.t = "bool" -> v.b
      [] v.t = "int" -> v.n # 0
      [] v.t = "tuple" -> v.elts # <<>>
      [] v.t = "dict" -> v.items # <<>>

\* d[k] = v on an insertion-ordered dict held as a sequence of <<key, value>>
RECURSIVE DictSet(_, _, _)
DictSet(items, k, v) ==
    IF items = <<>> THEN << <<k, v>> >>
    ELSE IF Head(items)[1] = k THEN << <<k, v>> >> \o Tail(items)
    ELSE <<Head(items)>> \o DictSet(Tail(items), k, v)

DictKeys(items) == {items[i][1] : i \in 1..Len(items)}

DictGet(items, k) == (CHOOSE i \in 1..Len(items) : items[i][1] = k)

DictVal(items, k) == items[DictGet(items, k)][2]

\* outcome of a call: a returned value or a raised exception
Ret(v) == [ret |-> v]
Raise(e) == [exc |-> e]
Raised(r) == "exc" \in DOMAIN r

\* run Rest on the value r returned, or pass on the exception r raised
Then(r, Rest(_)) == IF Raised(r) THEN r ELSE Rest(r.ret)

-----------------------------------------------------------------------------
(* str methods and repr() *)

\* s.endswith(suffix)
EndsWith(s, suffix) ==
    /\ Len(s) >= Len(suffix)
    /\ SubSeq(s, Len(s) - Len(suffix) + 1, Len(s)) = suffix

\* s.startswith(prefix)
StartsWith(s, prefix) ==
    /\ Len(s) >= Len(prefix)
    /\ SubSeq(s, 1, Len(prefix)) = prefix

HasChar(s, c) == \E i \in 1..Len(s) : SubSeq(s, i, i) = c

RECURSIVE EscapeStr(_)
EscapeStr(s) ==
    IF s = "" THEN ""
    ELSE LET c == SubSeq(s, 1, 1)
             rest == EscapeStr(SubSeq(s, 2, Len(s)))
         IN  IF c = "'" THEN "\\'" \o rest
             ELSE IF c = "\\" THEN "\\\\" \o rest
             ELSE c \o rest

Digit(d) == SubSeq("0123456789", d + 1, d + 1)

RECURSIVE NatRepr(_)
NatRepr(n) == IF n < 10 THEN Digit(n) ELSE NatRepr(n \div 10) \o Digit(n % 10)

\* repr() of a constant value
ReprValue(v) ==
    CASE v.t = "NoneType" -> "None"
      [] v.t = "bool" -> IF v.b THEN "True" ELSE "False"
      [] v.t = "int" -> IF v.n < 0 THEN "-" \o NatRepr(-v.n) ELSE NatRepr(v.n)
      [] v.t = "str" ->
            IF HasChar(v.s, "'") /\ ~HasChar(v.s, "\"")
            THEN "\"" \o v.s \o "\""
            ELSE "'" \o EscapeStr(v.s) \o "'"

\* object.__repr__ of a syntax-tree node living at address `addr`
ReprNode(node, addr) == "<ast." \o node.kind \o " object at 0x" \o addr \o ">"

\* ", ".join(parts)
RECURSIVE Join(_, _)
Join(sep, parts) ==
    IF parts = <<>> THEN ""
    ELSE IF Len(parts) = 1 THEN parts[1]
    ELSE parts[1] \o sep \o Join(sep, Tail(parts))

-----------------------------------------------------------------------------
(* Syntax-tree nodes (the ast classes the code inspects) *)

Name(id) == [kind |-> "Name", id |-> id]
Attribute(value, attr) == [kind |-> "Attribute", value |-> value, attr |-> attr]
Constant(value) == [kind |-> "Constant", value |-> value]
Call(func, args, keywords) ==
    [kind |-> "Call", func |-> func, args |-> args, keywords |-> keywords]
Keyword(arg, value) == [arg |-> arg, value |-> value]
DictNode(keys, values) == [kind |-> "Dict", keys |-> keys, values |-> values]
ListNode == [kind |-> "List"]
TupleNode == [kind |-> "Tuple"]
Lambda == [kind |-> "Lambda"]
Subscript(value) == [kind |-> "Subscript", value |-> value]
UnaryOp == [kind |-> "UnaryOp"]
Assign(targets, value) == [kind |-> "Assign", targets |-> targets, value |-> value]
Pass == [kind |-> "Pass"]
Arguments(posonlyargs, args, defaults) ==
    [posonlyargs |-> posonlyargs, args |-> args, defaults |-> defaults]
FunctionDef(name, args, decorator_list) ==
    [kind |-> "FunctionDef", name |-> name, args |-> args,
     decorator_list |-> decorator_list]
ClassDef(name, bases, body) ==
    [kind |-> "ClassDef", name |-> name, bases |-> bases, body |-> body]

\* the ast classes whose instances carry a `value` attribute
HasValueAttr(node) ==
    node.kind \in {"Constant", "Attribute", "Subscript"}

-----------------------------------------------------------------------------
(* Module constants *)

BASE_CLASSES == {"BaseModel", "AbstractModel", "Model", "TransientModel"}

FIELD_TYPES == {"Boolean", "Char", "Integer", "Float", "Date", "Datetime",
                "Selection", "Many2one", "One2many", "Many2many"}

-----------------------------------------------------------------------------
(* ast_to_string *)

ast_to_string(elt, addr) ==
    IF elt.kind = "Name" THEN Ret(elt.id)
    ELSE IF elt.kind = "Call" \/ elt.kind = "Lambda" THEN Ret("<Call()>")
    ELSE IF elt.kind = "List" THEN Ret("<List()>")
    ELSE IF elt.kind = "Tuple" THEN Ret("<Tuple()>")
    ELSE IF ~HasValueAttr(elt) THEN Raise("AttributeError")
    ELSE IF elt.kind = "Constant" THEN Ret(ReprValue(elt.value))
    ELSE Ret(ReprNode(elt.value, addr))

\* [ast_to_string(e) for e in elts], stopping at the first exception
RECURSIVE RenderAll(_, _)
RenderAll(elts, addr) ==
    IF elts = <<>> THEN Ret(<<>>)
    ELSE Then(ast_to_string(Head(elts), addr), LAMBDA r :
         Then(RenderAll(Tail(elts), addr), LAMBDA rest :
         Ret(<<r>> \o rest)))

-----------------------------------------------------------------------------
(* OdooMethod *)

is_method(ast_cls) ==
    IF ast_cls.kind = "FunctionDef" THEN ~StartsWith(ast_cls.name, "__")
    ELSE FALSE

\* kwargs of _extract_decorator_signature
RECURSIVE RenderKeywords(_, _)
RenderKeywords(keywords, addr) ==
    IF keywords = <<>> THEN Ret(<<>>)
    ELSE Then(ast_to_string(Head(keywords).value, addr), LAMBDA r :
         Then(RenderKeywords(Tail(keywords), addr), LAMBDA rest :
         Ret(<<Head(keywords).arg \o "=" \o r>> \o rest)))

_extract_decorator_signature(ast_cls, addr) ==
    Then(RenderAll(ast_cls.args, addr), LAMBDA args :
    Then(RenderKeywords(ast_cls.keywords, addr), LAMBDA kwargs :
    Ret(args \o kwargs)))

\* the local variable `deco` before its first assignment
Unbound == [unbound |-> TRUE]
Bound(s) == [name |-> s]

\* reading a local variable
Load(local) == IF local = Unbound THEN Raise("UnboundLocalError") ELSE Ret(local.name)

\* the local `deco` after lines 247-250, given its binding before them
DecoratorCallName(dec, deco) ==
    IF dec.func.kind = "Name" THEN Ret(Bound(dec.func.id))
    ELSE IF dec.func.kind = "Attribute"
         THEN IF dec.func.value.kind = "Name"
              THEN Ret(Bound(dec.func.value.id \o "." \o dec.func.attr))
              ELSE Raise("AttributeError")
    ELSE Ret(deco)

\* lines 247-252: the text of a Call decorator
DecoratorCall(dec, deco, addr) ==
    Then(DecoratorCallName(dec, deco), LAMBDA bound :
    Then(_extract_decorator_signature(dec, addr), LAMBDA args :
    Then(Load(bound), LAMBDA name :
    Ret(name \o "(" \o Join(", ", args) \o ")"))))

\* the loop of _extract_decorators over decs, with the decorators gathered so
\* far and the current binding of the local `deco`
RECURSIVE DecoratorLoop(_, _, _, _)
DecoratorLoop(decs, decorators, deco, addr) ==
    IF decs = <<>> THEN Ret(decorators)
    ELSE IF Head(decs).kind = "Name"
    THEN DecoratorLoop(Tail(decs), Append(decorators, Head(decs).id), deco, addr)
    ELSE IF Head(decs).kind = "Attribute"
    THEN IF Head(decs).value.kind = "Name"
         THEN DecoratorLoop(Tail(decs),
                  Append(decorators, Head(decs).value.id \o "." \o Head(decs).attr),
                  deco, addr)
         ELSE Raise("AttributeError")
    ELSE IF Head(decs).kind = "Call"
    THEN Then(DecoratorCall(Head(decs), deco, addr), LAMBDA d :
         DecoratorLoop(Tail(decs), Append(decorators, d), Bound(d), addr))
    ELSE DecoratorLoop(Tail(decs), decorators, deco, addr)

_extract_decorators(ast_cls, addr) ==
    DecoratorLoop(ast_cls.decorator_list, <<>>, Unbound, addr)

Reverse(s) == [i \in 1..Len(s) |-> s[Len(s) + 1 - i]]

\* the loop of lines 276-278: defaults is already reversed, i counts from 0
RECURSIVE AlignDefaults(_, _, _)
AlignDefaults(signature, defaults, i) ==
    IF i >= Len(defaults) THEN Ret(signature)
    ELSE IF i + 1 > Len(signature) THEN Raise("IndexError")
    ELSE AlignDefaults(
             [signature EXCEPT ![Len(signature) - i] = @ \o "=" \o defaults[i + 1]],
             defaults, i + 1)

_extract_method_signature(ast_cls, addr) ==
    Then(RenderAll(ast_cls.args.defaults, addr), LAMBDA defaults :
    AlignDefaults(ast_cls.args.args, Reverse(defaults), 0))

\* OdooMethod.__init__: the object's attributes
OdooMethod(ast_cls, addr) ==
    IF ~is_method(ast_cls) THEN Raise("AssertionError") ELSE
    Then(_extract_decorators(ast_cls, addr), LAMBDA decorators :
    Then(_extract_method_signature(ast_cls, addr), LAMBDA signature :
    Ret([name |-> ast_cls.name,
         decorators |-> decorators,
         signature |-> signature])))

StrTuple(strs) == PyTuple([i \in 1..Len(strs) |-> PyStr(strs[i])])

OdooMethod_to_dict(self) ==
    PyDict(<< <<PyStr("name"), PyStr(self.name)>>,
              <<PyStr("signature"), StrTuple(self.signature)>> >>
           \o IF self.decorators # <<>>
              THEN << <<PyStr("decorators"), StrTuple(self.decorators)>> >>
              ELSE <<>>)

-----------------------------------------------------------------------------
(* OdooField *)

_extract_type(ast_cls) ==
    IF ast_cls.value.func.kind = "Attribute"
    THEN IF ast_cls.value.func.attr \in FIELD_TYPES
         THEN PyStr(ast_cls.value.func.attr) ELSE PyNone
    ELSE IF ast_cls.value.func.kind = "Name"
    THEN IF ast_cls.value.func.id \in FIELD_TYPES
         THEN PyStr(ast_cls.value.func.id) ELSE PyNone
    ELSE PyNone

is_field(ast_cls) ==
    IF ast_cls.kind = "Assign" /\ ast_cls.targets # <<>>
    THEN IF ast_cls.value.kind # "Call" THEN FALSE
         ELSE IF ~Truthy(_extract_type(ast_cls)) THEN FALSE
         ELSE TRUE
    ELSE FALSE

\* OdooField.__init__: the object's attributes
OdooField(ast_cls) ==
    IF ~is_field(ast_cls) THEN Raise("AssertionError")
    ELSE IF ast_cls.targets[1].kind # "Name" THEN Raise("AttributeError")
    ELSE Ret([name |-> ast_cls.targets[1].id, type_ |-> _extract_type(ast_cls)])

OdooField_to_dict(self) ==
    PyDict(<< <<PyStr("name"), PyStr(self.name)>>,
              <<PyStr("type"), self.type_>> >>)

-----------------------------------------------------------------------------
(* OdooModel *)

\* the dict built by lines 140-147 from a Dict node's keys and values
RECURSIVE DictLiteral(_, _, _)
DictLiteral(keys, values, acc) ==
    IF keys = <<>> \/ values = <<>> THEN acc
    ELSE DictLiteral(Tail(keys), Tail(values),
             IF Head(keys).kind = "Constant" /\ Head(values).kind = "Constant"
             THEN DictSet(acc, Head(keys).value, Head(values).value)
             ELSE acc)

\* lines 132-149 for a target that matched: a returned value, or falling
\* through to the next iteration
Continue == [cont |-> TRUE]

\* the outcome r of an iteration, or that of the iterations after it when r
\* fell through
OrElse(r, later) == IF r = Continue THEN later ELSE r

\* the first assignment to the attribute decides, resolvable or not
AttrLiteral_first(value) ==
    IF value.kind = "Constant" THEN Ret(value.value) ELSE Ret(PyNone)

AttrLiteral(value) ==
    IF value.kind = "Constant" THEN Ret(value.value)
    ELSE IF value.kind = "Dict"
         THEN IF DictLiteral(value.keys, value.values, <<>>) # <<>>
              THEN Ret(PyDict(DictLiteral(value.keys, value.values, <<>>)))
              ELSE Continue
    ELSE Continue

\* the inner loop (lines 128-149) over the targets of one Assign
RECURSIVE TargetLoop(_, _, _)
TargetLoop(targets, value, attr_name) ==
    IF targets = <<>> THEN Continue
    ELSE IF Head(targets).kind # "Name" THEN Raise("AttributeError")
    ELSE IF Head(targets).id # attr_name
         THEN TargetLoop(Tail(targets), value, attr_name)
    ELSE OrElse(AttrLiteral(value), TargetLoop(Tail(targets), value, attr_name))

\* the outer loop (line 126) over the statements of a class body
RECURSIVE BodyLoop(_, _)
BodyLoop(body, attr_name) ==
    IF body = <<>> THEN Ret(PyNone)
    ELSE IF Head(body).kind = "Assign" /\ Head(body).targets # <<>>
         THEN OrElse(TargetLoop(Head(body).targets, Head(body).value, attr_name),
                     BodyLoop(Tail(body), attr_name))
    ELSE BodyLoop(Tail(body), attr_name)

_get_attr_value(ast_cls, attr_name) == BodyLoop(ast_cls.body, attr_name)

\* a or b
PyOr(a, b) == IF Truthy(a) THEN a ELSE b

\* `name and inherit` in place of `name or inherit`
is_model_and(ast_cls) ==
    Then(_get_attr_value(ast_cls, "_name"), LAMBDA name :
    Then(_get_attr_value(ast_cls, "_inherit"), LAMBDA inherit :
    Ret(Truthy(name) /\ Truthy(inherit))))

is_model(ast_cls) ==
    Then(_get_attr_value(ast_cls, "_name"), LAMBDA name :
    Then(_get_attr_value(ast_cls, "_inherit"), LAMBDA inherit :
    Ret(Truthy(PyOr(name, inherit)))))

\* the list `bases` of lines 93-98
RECURSIVE BaseNames(_)
BaseNames(bases) ==
    IF bases = <<>> THEN <<>>
    ELSE IF Head(bases).kind = "Name"
         THEN <<Head(bases).id>> \o BaseNames(Tail(bases))
    ELSE IF Head(bases).kind = "Attribute"
         THEN <<Head(bases).attr>> \o BaseNames(Tail(bases))
    ELSE BaseNames(Tail(bases))

SeqToSet(s) == {s[i] : i \in 1..Len(s)}

is_base_class(ast_cls) ==
    IF ast_cls.name = "BaseModel" /\ BaseNames(ast_cls.bases) = <<>> THEN TRUE
    ELSE IF ast_cls.name \in BASE_CLASSES
            /\ (SeqToSet(BaseNames(ast_cls.bases)) \cap BASE_CLASSES) # {} THEN TRUE
    ELSE FALSE

\* the assertion of line 71
AssertClassified(ast_cls) ==
    Then(is_model(ast_cls), LAMBDA m :
    IF m \/ is_base_class(ast_cls) THEN Ret(TRUE) ELSE Raise("AssertionError"))

RECURSIVE _get_type(_)
_get_type(bases) ==
    IF bases = <<>> THEN PyNone
    ELSE IF Head(bases).kind = "Attribute" THEN PyStr(Head(bases).attr)
    ELSE IF Head(bases).kind = "Name" THEN PyStr(Head(bases).id)
    ELSE _get_type(Tail(bases))

RECURSIVE FieldLoop(_, _)
FieldLoop(body, fields) ==
    IF body = <<>> THEN Ret(PyDict(fields))
    ELSE IF ~is_field(Head(body)) THEN FieldLoop(Tail(body), fields)
    ELSE Then(OdooField(Head(body)), LAMBDA field :
         FieldLoop(Tail(body),
                   DictSet(fields, PyStr(field.name), OdooField_to_dict(field))))

_get_fields(ast_cls) == FieldLoop(ast_cls.body, <<>>)

RECURSIVE MethodLoop(_, _, _)
MethodLoop(body, methods, addr) ==
    IF body = <<>> THEN Ret(PyDict(methods))
    ELSE IF ~is_method(Head(body)) THEN MethodLoop(Tail(body), methods, addr)
    ELSE Then(OdooMethod(Head(body), addr), LAMBDA method :
         MethodLoop(Tail(body),
                    DictSet(methods, PyStr(method.name), OdooMethod_to_dict(method)),
                    addr))

_get_methods(ast_cls, addr) == MethodLoop(ast_cls.body, <<>>, addr)

\* OdooModel.__init__: the object's attributes
OdooModel(ast_cls, addr) ==
    Then(AssertClassified(ast_cls), LAMBDA asserted :
    Then(_get_attr_value(ast_cls, "_name"), LAMBDA name :
    Then(_get_attr_value(ast_cls, "_inherit"), LAMBDA inherit :
    Then(_get_attr_value(ast_cls, "_inherits"), LAMBDA inherits :
    Then(_get_attr_value(ast_cls, "_auto"), LAMBDA auto :
    Then(_get_attr_value(ast_cls, "_order"), LAMBDA order :
    Then(_get_fields(ast_cls), LAMBDA fields :
    Then(_get_methods(ast_cls, addr), LAMBDA methods :
    Ret([type_ |-> _get_type(ast_cls.bases),
         name |-> name,
         inherit |-> inherit,
         inherits |-> inherits,
         auto |-> auto,
         order |-> order,
         fields |-> fields,
         methods |-> methods])))))))))

\* the loop of lines 177-179
RECURSIVE EmitLoop(_, _, _)
EmitLoop(self, attrs, data) ==
    IF attrs = <<>> THEN data
    ELSE EmitLoop(self, Tail(attrs),
             IF Truthy(self[Head(attrs)])
             THEN DictSet(data, PyStr(Head(attrs)), self[Head(attrs)])
             ELSE data)

\* `if self.auto:` in place of `if self.auto is not None:`
OdooModel_to_dict_truthy_auto(self) ==
    PyDict(EmitLoop(self, <<"name", "inherit", "inherits", "fields", "methods">>,
               << <<PyStr("type"), self.type_>> >>
               \o IF Truthy(self.auto)
                  THEN << <<PyStr("auto"), self.auto>> >>
                  ELSE <<>>))

OdooModel_to_dict(self) ==
    PyDict(EmitLoop(self, <<"name", "inherit", "inherits", "fields", "methods">>,
               << <<PyStr("type"), self.type_>> >>
               \o IF self.auto # PyNone
                  THEN << <<PyStr("auto"), self.auto>> >>
                  ELSE <<>>))

-----------------------------------------------------------------------------
(* Bounds *)

MaxElts == 2        \* top-level statements in a scanned file
MaxBody == 3        \* statements in a class body given to the classifier
MaxStmts == 2       \* statements in a class body given to OdooModel
MaxDecorators == 2  \* decorators on a method
MaxDefaults == 2    \* default expressions of a method

\* Seq(S) up to length n
RECURSIVE SeqsUpTo(_, _)
SeqsUpTo(S, n) ==
    IF n = 0 THEN {<<>>}
    ELSE LET shorter == SeqsUpTo(S, n - 1)
         IN  shorter \cup {Append(q, x) : q \in shorter, x \in S}

-----------------------------------------------------------------------------
(* Source fragments used as inputs *)

Str(s) == Constant(PyStr(s))
fields_(t) == Call(Attribute(Name("fields"), t), <<>>, <<>>)
models_(t) == Attribute(Name("models"), t)
NoArgs == Arguments(<<>>, <<"self">>, <<>>)

\* def write(self, vals, context=None)  decorated @api.model
WriteMethod ==
    FunctionDef("write",
        Arguments(<<>>, <<"self", "vals", "context">>, <<Constant(PyNone)>>),
        <<Attribute(Name("api"), "model")>>)

\* def default_get(self, date=fields.Date.today)
TodayMethod ==
    FunctionDef("default_get",
        Arguments(<<>>, <<"self", "date">>,
                  <<Attribute(Attribute(Name("fields"), "Date"), "today")>>),
        <<>>)

TopLevel ==
    { ClassDef("Partner", <<models_("Model")>>,
               <<Assign(<<Name("_name")>>, Str("res.partner")),
                 Assign(<<Name("name")>>, fields_("Char"))>>),
      ClassDef("Partner", <<models_("Model")>>,
               <<Assign(<<Name("_inherit")>>, Str("res.partner")), WriteMethod>>),
      ClassDef("Partner", <<models_("Model")>>,
               <<Assign(<<Name("_inherit")>>, Str("res.partner")), TodayMethod>>),
      ClassDef("BaseModel", <<>>,
               <<Assign(<<Name("_auto")>>, Constant(PyBool(FALSE))),
                 Assign(<<Name("_name")>>, Constant(PyNone))>>),
      ClassDef("BaseModel", <<>>,
               <<Assign(<<Name("_name")>>, Str("base"))>>),
      ClassDef("Model", <<Name("AbstractModel")>>, <<Pass>>),
      ClassDef("Model", <<models_("BaseModel")>>,
               <<Assign(<<Name("_auto")>>, Constant(PyBool(TRUE)))>>),
      ClassDef("Helper", <<Name("object")>>,
               <<Assign(<<Name("_order")>>, Str("id"))>>),
      ClassDef("Partner", <<models_("Model")>>,
               <<Assign(<<Name("_name")>>, Str("res.partner")),
                 Assign(<<TupleNode>>, TupleNode)>>),
      FunctionDef("post_init_hook", NoArgs, <<>>) }

\* what ast.parse makes of the file: a module body, or a SyntaxError
Sources ==
    {[body |-> b] : b \in SeqsUpTo(TopLevel, MaxElts)} \cup {[syntax_error |-> TRUE]}

Paths == {"models/partner.py", "notes.txt", "setup.pyc", "py"}

\* addresses the allocator may give the nodes of one parse
Addrs == {"7f3a5c0", "7f3a9e0"}

-----------------------------------------------------------------------------
(* PyFile *)

\* the extension test without its dot
IsPythonFile_nodot(p) == EndsWith(p, "py")

\* line 35
IsPythonFile(p) == EndsWith(p, ".py")

\* a data model stored under its bare class name
ModelKey_bare(p, name) == name

\* line 54
ModelKey(p, name) == p \o ":" \o name

\* line 60
BaseClassKey(p, name) == name

\* line 55 / 60: models[key] = model.to_dict()
StoreModel(ms, key, record) == DictSet(ms, PyStr(key), record)

\* lines 50-55 and 59-60: build the record and store it under key
Record(ms, key, elt, addr) ==
    Then(OdooModel(elt, addr), LAMBDA model :
    Ret(StoreModel(ms, key, OdooModel_to_dict(model))))

\* one iteration of the loop of _get_models (lines 48-60) on elt
ScanElt(ms, p, elt, addr) ==
    IF elt.kind # "ClassDef" THEN Ret(ms)
    ELSE Then(is_model(elt), LAMBDA m :
         IF m THEN Record(ms, ModelKey(p, elt.name), elt, addr)
         ELSE IF is_base_class(elt)
              THEN Record(ms, BaseClassKey(p, elt.name), elt, addr)
         ELSE Ret(ms))

\* PyFile.to_dict
PyFile_to_dict(ms) == PyDict(<< <<PyStr("models"), ms>> >>)

Init ==
    /\ pc = "new"
    /\ path \in Paths
    /\ source \in Sources
    /\ content = <<>>
    /\ heap = ""
    /\ idx = 0
    /\ models = Null
    /\ events = <<>>
    /\ obj = Null
    /\ ret = Null
    /\ prev = Null

\* PyFile.__init__, lines 35-37: the extension check
CheckPath ==
    /\ pc = "new"
    /\ IF ~IsPythonFile(path)
       THEN pc' = "raised" /\ ret' = Raise("ValueError")
       ELSE pc' = "parse" /\ ret' = ret
    /\ UNCHANGED <<path, source, content, heap, idx, models, events, obj, prev>>

\* PyFile._parse_file, lines 41-44
ParseFile ==
    /\ pc = "parse"
    /\ events' = events \o <<"open", "read">>
    /\ IF "syntax_error" \in DOMAIN source
       THEN /\ pc' = "raised"
            /\ ret' = Raise("SyntaxError")
            /\ UNCHANGED <<content, heap, idx, models>>
       ELSE /\ pc' = "scan"
            /\ content' = source.body
            /\ heap' \in Addrs
            /\ idx' = 1
            /\ models' = PyDict(<<>>)
            /\ ret' = ret
    /\ UNCHANGED <<path, source, obj, prev>>

\* PyFile._get_models, lines 48-60: the loop body on content[idx]
GetModelsStep ==
    /\ pc = "scan"
    /\ idx <= Len(content)
    /\ \E r \in {ScanElt(models.items, path, content[idx], heap)} :
       IF Raised(r)
       THEN pc' = "raised" /\ ret' = r /\ models' = Null /\ idx' = idx
       ELSE pc' = pc /\ ret' = ret /\ models' = PyDict(r.ret) /\ idx' = idx + 1
    /\ UNCHANGED <<path, source, content, heap, events, obj, prev>>

\* PyFile._get_models, line 61, and the end of __init__
GetModelsReturn ==
    /\ pc = "scan"
    /\ idx > Len(content)
    /\ pc' = "done"
    /\ ret' = Ret(PyFile_to_dict(models))
    /\ UNCHANGED <<path, source, content, heap, idx, models, events, obj, prev>>

\* a second PyFile(path) on the same, unmodified file
ScanAgain ==
    /\ pc = "done"
    /\ prev = Null
    /\ prev' = ret.ret
    /\ pc' = "new"
    /\ content' = <<>>
    /\ heap' = ""
    /\ idx' = 0
    /\ models' = Null
    /\ ret' = Null
    /\ UNCHANGED <<path, source, events, obj>>

Next == CheckPath \/ ParseFile \/ GetModelsStep \/ GetModelsReturn \/ ScanAgain

Spec == Init /\ [][Next]_vars

-----------------------------------------------------------------------------
(* The classifier and _get_attr_value on one class definition *)

AttrStmts ==
    { Assign(<<Name("_name")>>, Str("res.partner")),
      Assign(<<Name("_name")>>, Constant(PyNone)),
      Assign(<<Name("_name")>>, Call(Name("compute"), <<>>, <<>>)),
      Assign(<<Name("x"), Name("_name")>>, Str("")),
      Assign(<<Name("_inherit")>>, Str("mail.thread")),
      Assign(<<Name("_inherit")>>, ListNode),
      Assign(<<Name("_inherits")>>,
             DictNode(<<Str("res.users"), Name("k")>>, <<Str("user_id"), Str("v")>>)),
      Assign(<<Name("_inherits")>>, DictNode(<<Name("k")>>, <<Str("v")>>)),
      Assign(<<Name("_auto")>>, Constant(PyBool(FALSE))),
      Assign(<<TupleNode>>, TupleNode) }

AttrBases == {<<>>, <<models_("Model")>>}

AttrClasses ==
    {ClassDef("Partner", b, body) : b \in AttrBases, body \in SeqsUpTo(AttrStmts, MaxBody)}

AttrNames == {"_name", "_inherit", "_inherits", "_auto", "_order"}

InitAttr ==
    /\ pc = "given"
    /\ source \in AttrClasses
    /\ path = "models/partner.py"
    /\ content = <<>>
    /\ heap \in Addrs
    /\ idx = 0
    /\ models = Null
    /\ events = <<>>
    /\ obj = Null
    /\ ret = Null
    /\ prev = Null

\* a call of OdooModel._get_attr_value(source, attr_name)
CallGetAttrValue ==
    /\ pc = "given"
    /\ \E attr_name \in AttrNames :
          ret' = [fn |-> "_get_attr_value", attr_name |-> attr_name,
                  out |-> _get_attr_value(source, attr_name)]
    /\ pc' = "returned"
    /\ UNCHANGED <<path, source, content, heap, idx, models, events, obj, prev>>

\* a call of OdooModel.is_model(source)
CallIsModel ==
    /\ pc = "given"
    /\ ret' = [fn |-> "is_model", out |-> is_model(source)]
    /\ pc' = "returned"
    /\ UNCHANGED <<path, source, content, heap, idx, models, events, obj, prev>>

\* a call of OdooModel.is_base_class(source)
CallIsBaseClass ==
    /\ pc = "given"
    /\ ret' = [fn |-> "is_base_class", out |-> Ret(is_base_class(source))]
    /\ pc' = "returned"
    /\ UNCHANGED <<path, source, content, heap, idx, models, events, obj, prev>>

NextAttr == CallGetAttrValue \/ CallIsModel \/ CallIsBaseClass

SpecAttr == InitAttr /\ [][NextAttr]_vars

-----------------------------------------------------------------------------
(* OdooModel(...) and to_dict() on one class definition *)

ModelStmts ==
    { Assign(<<Name("_name")>>, Str("res.partner")),
      Assign(<<Name("_name")>>, Str("")),
      Assign(<<Name("_inherit")>>, Str("mail.thread")),
      Assign(<<Name("_inherits")>>, DictNode(<<Str("res.users")>>, <<Str("user_id")>>)),
      Assign(<<Name("_auto")>>, Constant(PyBool(FALSE))),
      Assign(<<Name("_auto")>>, Constant(PyBool(TRUE))),
      Assign(<<Name("name")>>, fields_("Char")),
      Assign(<<Name("state")>>, Call(Name("compute_default"), <<>>, <<>>)),
      Assign(<<Attribute(Name("Partner"), "name")>>, fields_("Char")),
      Assign(<<Subscript(Name("registry"))>>, Constant(PyInt(1))),
      Assign(<<TupleNode>>, TupleNode),
      WriteMethod,
      FunctionDef("__init__", NoArgs, <<>>) }

ModelClasses ==
    {ClassDef(n, b, body) : n \in {"Partner", "BaseModel"}, b \in AttrBases,
                            body \in SeqsUpTo(ModelStmts, MaxStmts)}

InitModel ==
    /\ pc = "given"
    /\ source \in ModelClasses
    /\ path = "models/partner.py"
    /\ content = <<>>
    /\ heap \in Addrs
    /\ idx = 0
    /\ models = Null
    /\ events = <<>>
    /\ obj = Null
    /\ ret = Null
    /\ prev = Null

\* OdooModel(source), lines 70-81
ConstructModel ==
    /\ pc = "given"
    /\ \E r \in {OdooModel(source, heap)} :
          IF Raised(r)
          THEN pc' = "raised" /\ ret' = [fn |-> "__init__", out |-> r] /\ obj' = obj
          ELSE pc' = "built" /\ ret' = ret /\ obj' = r.ret
    /\ UNCHANGED <<path, source, content, heap, idx, models, events, prev>>

\* OdooModel.to_dict(), lines 173-180
ModelToDict ==
    /\ pc = "built"
    /\ ret' = [fn |-> "to_dict", out |-> Ret(OdooModel_to_dict(obj))]
    /\ pc' = "returned"
    /\ UNCHANGED <<path, source, content, heap, idx, models, events, obj, prev>>

NextModel == ConstructModel \/ ModelToDict

SpecModel == InitModel /\ [][NextModel]_vars

-----------------------------------------------------------------------------
(* OdooMethod(...) on one function definition *)

DefaultExprs ==
    { Constant(PyNone), Str("draft"), Constant(PyInt(10)), Name("DEFAULT"),
      Call(Name("dict"), <<>>, <<>>), ListNode,
      Attribute(Attribute(Name("fields"), "Date"), "today"), UnaryOp }

ArgLists ==
    { Arguments(po, a, d) :
        po \in {<<>>, <<"self">>},
        a \in {<<>>, <<"x">>, <<"x", "y">>, <<"x", "y", "z">>},
        d \in SeqsUpTo(DefaultExprs, MaxDefaults) }

\* the parser accepts no more defaults than positional parameters
WellFormedArgs(a) == Len(a.defaults) <= Len(a.posonlyargs) + Len(a.args)

DecoratorExprs ==
    { Name("model"),
      Attribute(Name("api"), "model"),
      Call(Attribute(Name("api"), "depends"), <<Str("line_ids.amount")>>, <<>>),
      Call(Name("returns"), <<Str("self")>>, <<Keyword("upgrade", Lambda)>>),
      Call(Call(Name("retry"), <<>>, <<>>), <<Constant(PyInt(3))>>, <<>>),
      Attribute(Attribute(Name("odoo"), "api"), "model"),
      Subscript(Name("registry")) }

MethodDefs ==
    {FunctionDef("write", a, <<>>) : a \in {x \in ArgLists : WellFormedArgs(x)}}
    \cup {FunctionDef(n, NoArgs, d) : n \in {"_compute_total", "__init__"},
                                      d \in SeqsUpTo(DecoratorExprs, MaxDecorators)}

InitMethod ==
    /\ pc = "given"
    /\ source \in MethodDefs
    /\ path = "models/partner.py"
    /\ content = <<>>
    /\ heap \in Addrs
    /\ idx = 0
    /\ models = Null
    /\ events = <<>>
    /\ obj = Null
    /\ ret = Null
    /\ prev = Null

\* a call of OdooMethod._extract_decorators(source)
CallExtractDecorators ==
    /\ pc = "given"
    /\ ret' = [fn |-> "_extract_decorators", out |-> _extract_decorators(source, heap)]
    /\ pc' = "returned"
    /\ UNCHANGED <<path, source, content, heap, idx, models, events, obj, prev>>

\* a call of OdooMethod._extract_method_signature(source)
CallExtractSignature ==
    /\ pc = "given"
    /\ ret' = [fn |-> "_extract_method_signature",
               out |-> _extract_method_signature(source, heap)]
    /\ pc' = "returned"
    /\ UNCHANGED <<path, source, content, heap, idx, models, events, obj, prev>>

\* OdooMethod(source), lines 222-226
ConstructMethod ==
    /\ pc = "given"
    /\ \E r \in {OdooMethod(source, heap)} :
          IF Raised(r)
          THEN pc' = "raised" /\ ret' = [fn |-> "__init__", out |-> r] /\ obj' = obj
          ELSE pc' = "built" /\ ret' = ret /\ obj' = r.ret
    /\ UNCHANGED <<path, source, content, heap, idx, models, events, prev>>

\* OdooMethod.to_dict(), lines 281-285
MethodToDict ==
    /\ pc = "built"
    /\ ret' = [fn |-> "to_dict", out |-> Ret(OdooMethod_to_dict(obj))]
    /\ pc' = "returned"
    /\ UNCHANGED <<path, source, content, heap, idx, models, events, obj, prev>>

NextMethod ==
    CallExtractDecorators \/ CallExtractSignature \/ ConstructMethod \/ MethodToDict

SpecMethod == InitMethod /\ [][NextMethod]_vars

-----------------------------------------------------------------------------
(* Properties of the scanner (Spec) *)

\* the classifier's verdict on a top-level statement
Classified(elt) ==
    IF elt.kind # "ClassDef" \/ Raised(is_model(elt)) THEN "None"
    ELSE IF is_model(elt).ret THEN "DataModel"
    ELSE IF is_base_class(elt) THEN "BaseClass"
    ELSE "None"

AggregationKey(elt) ==
    IF Classified(elt) = "DataModel" THEN path \o ":" \o elt.name ELSE elt.name

Contributing == {i \in 1..Len(content) : Classified(content[i]) # "None"}

LastWithKey(i) ==
    \A j \in Contributing :
        AggregationKey(content[j]) = AggregationKey(content[i]) => j <= i

RecordOf(elt) == OdooModel_to_dict(OdooModel(elt, heap).ret)

HasPyExtension(p) == Len(p) >= 3 /\ SubSeq(p, Len(p) - 2, Len(p)) = ".py"

\* C2: for a path that does not end in ".py" the constructor fails with the
\* invalid-input error before any file access: no open or read has happened,
\* no parse result and no result mapping exist.
C2_InvalidPathNoAccess ==
    ~HasPyExtension(path) =>
        /\ events = <<>>
        /\ content = <<>>
        /\ models = Null
        /\ pc \in {"new", "raised"}
        /\ pc = "raised" => ret = Raise("ValueError")

C2_Witness ==
    /\ path = "notes.txt"
    /\ pc = "raised"
    /\ ret = Raise("ValueError")
    /\ events = <<>>

\* C3: a class named BaseModel with no declared bases is recorded by the
\* scanner under the base-class key (its bare name), never under the
\* data-model key, whatever its body holds.
C3_BaseModelUnderBareName ==
    pc = "done" =>
        \A i \in 1..Len(content) :
            (/\ content[i].kind = "ClassDef"
             /\ content[i].name = "BaseModel"
             /\ content[i].bases = <<>>)
            => /\ PyStr("BaseModel") \in DictKeys(models.items)
               /\ PyStr(path \o ":BaseModel") \notin DictKeys(models.items)

\* C4: a second scan of the same unmodified file yields the same result
\* structure as the first.
C4_RescanIdentical ==
    (pc = "done" /\ prev # Null) => ret.ret = prev

-----------------------------------------------------------------------------
(* Properties of the classifier and of _get_attr_value (SpecAttr) *)

IsLiteralEntry(d, k) == d.keys[k].kind = "Constant" /\ d.values[k].kind = "Constant"

LiteralEntries(d) ==
    {k \in 1..Len(d.keys) : k <= Len(d.values) /\ IsLiteralEntry(d, k)}

\* a right-hand side the attribute reader takes a value from
Resolves(value) ==
    \/ value.kind = "Constant"
    \/ value.kind = "Dict" /\ LiteralEntries(value) # {}

AssignsTo(stmt, attr_name) ==
    /\ stmt.kind = "Assign"
    /\ \E j \in 1..Len(stmt.targets) :
          stmt.targets[j].kind = "Name" /\ stmt.targets[j].id = attr_name

ResolvingStmts(body, attr_name) ==
    {i \in 1..Len(body) : AssignsTo(body[i], attr_name) /\ Resolves(body[i].value)}

FirstResolving(body, attr_name) ==
    CHOOSE i \in ResolvingStmts(body, attr_name) :
        \A j \in ResolvingStmts(body, attr_name) : i <= j

\* v is the value the literal `value` denotes
Denotes(value, v) ==
    IF value.kind = "Constant" THEN v = value.value
    ELSE /\ v.t = "dict"
         /\ DictKeys(v.items) = {value.keys[k].value : k \in LiteralEntries(value)}
         /\ Len(v.items) = Cardinality(DictKeys(v.items))
         /\ \A k \in LiteralEntries(value) :
               (\A l \in LiteralEntries(value) :
                    value.keys[l].value = value.keys[k].value => l <= k)
               => DictVal(v.items, value.keys[k].value) = value.values[k].value

\* v is what the first resolving assignment to attr_name gives, or None when
\* there is none
FirstResolvingGives(body, attr_name, v) ==
    IF ResolvingStmts(body, attr_name) = {} THEN v = PyNone
    ELSE Denotes(body[FirstResolving(body, attr_name)].value, v)

\* neither absent nor empty
NonEmpty(v) ==
    v \notin {PyNone, PyStr(""), PyDict(<<>>), PyTuple(<<>>), PyBool(FALSE), PyInt(0)}

\* the attribute resolves, and to a non-empty value
ResolvesNonEmpty(body, attr_name) ==
    /\ ResolvingStmts(body, attr_name) # {}
    /\ body[FirstResolving(body, attr_name)].value.kind = "Constant"
          => NonEmpty(body[FirstResolving(body, attr_name)].value.value)

\* C8: the classifier answers "data model" exactly when the model-name or the
\* model-inherit attribute resolves to a non-empty value from a literal
\* assignment of the body; the bases are not looked at, and inherits, auto or
\* order alone do not make a data model.
C8_DataModelIff ==
    (pc = "returned" /\ ret.fn = "is_model" /\ ~Raised(ret.out)) =>
        ret.out.ret = (\/ ResolvesNonEmpty(source.body, "_name")
                       \/ ResolvesNonEmpty(source.body, "_inherit"))

\* a data model without any base, and one body where only inherits and auto
\* resolve is not a data model
C8_Witness ==
    /\ pc = "returned"
    /\ ret.fn = "is_model"
    /\ ret.out = Ret(TRUE)
    /\ source.bases = <<>>
    /\ ResolvingStmts(source.body, "_name") = {}
    /\ ResolvingStmts(source.body, "_inherits") # {}
    /\ ResolvesNonEmpty(source.body, "_inherit")

\* the assignments to attr_name that resolve to a value other than None
ValueStmts(body, attr_name) ==
    {i \in ResolvingStmts(body, attr_name) : body[i].value # Constant(PyNone)}

\* C10 as stated: the reader returns the value of the first assignment to the
\* identifier whose right-hand side resolves, and the attribute is absent
\* only if no assignment to it resolves.
C10_AbsentOnlyIfNoneResolves ==
    (pc = "returned" /\ ret.fn = "_get_attr_value" /\ ~Raised(ret.out)) =>
        /\ ret.out.ret # PyNone =>
              FirstResolvingGives(source.body, ret.attr_name, ret.out.ret)
        /\ ret.out.ret = PyNone => ValueStmts(source.body, ret.attr_name) = {}

\* C10, amended: the reader returns the value of the first assignment to the
\* identifier whose right-hand side resolves (unresolvable earlier ones are
\* passed over, later ones never override); the attribute is absent when no
\* assignment resolves, or when the first resolving one is the constant None.
C10_FirstResolvingWins ==
    (pc = "returned" /\ ret.fn = "_get_attr_value" /\ ~Raised(ret.out)) =>
        /\ FirstResolvingGives(source.body, ret.attr_name, ret.out.ret)
        /\ ret.out.ret = PyNone <=>
              \/ ResolvingStmts(source.body, ret.attr_name) = {}
              \/ source.body[FirstResolving(source.body, ret.attr_name)].value
                    = Constant(PyNone)

\* an unresolvable assignment, then a resolving one, then another resolving
\* one: the middle one is returned
C10_Witness ==
    /\ pc = "returned"
    /\ ret.fn = "_get_attr_value"
    /\ ret.attr_name = "_name"
    /\ Len(source.body) = 3
    /\ AssignsTo(source.body[1], "_name") /\ ~Resolves(source.body[1].value)
    /\ ResolvingStmts(source.body, "_name") = {2, 3}
    /\ source.body[2].value # source.body[3].value
    /\ ret.out = Ret(source.body[2].value.value)
    /\ ret.out.ret # PyNone

-----------------------------------------------------------------------------
(* Properties of OdooModel (SpecModel) *)

HasUnsupportedTarget(cls) ==
    \E i \in 1..Len(cls.body) :
        /\ cls.body[i].kind = "Assign"
        /\ \E j \in 1..Len(cls.body[i].targets) :
              cls.body[i].targets[j].kind # "Name"

\* C6: a class body holding an assignment whose target is not a single
\* identifier is classified and extracted without raising.
C6_UnsupportedTargetNoRaise ==
    (HasUnsupportedTarget(source) /\ pc # "given") => pc # "raised"

Emitted(d, key) == PyStr(key) \in DictKeys(d.items)

\* C7: in the serialized record the kind entry is always present (also when
\* the class has no bases); auto is present exactly when it resolved, false
\* included; name, inherit, inherits, fields and methods are present only
\* when non-empty, and then with the extracted value.
C7_SerializationRule ==
    (pc = "returned" /\ ret.fn = "to_dict") =>
        /\ Emitted(ret.out.ret, "type")
        /\ DictVal(ret.out.ret.items, PyStr("type")) = obj.type_
        /\ Emitted(ret.out.ret, "auto") <=> obj.auto # PyNone
        /\ Emitted(ret.out.ret, "auto") => DictVal(ret.out.ret.items, PyStr("auto")) = obj.auto
        /\ \A a \in {"name", "inherit", "inherits", "fields", "methods"} :
              /\ Emitted(ret.out.ret, a) <=> NonEmpty(obj[a])
              /\ Emitted(ret.out.ret, a) => DictVal(ret.out.ret.items, PyStr(a)) = obj[a]
        /\ DictKeys(ret.out.ret.items) \subseteq
              {PyStr(k) : k \in {"type", "auto", "name", "inherit", "inherits",
                                 "fields", "methods"}}
        /\ Len(ret.out.ret.items) = Cardinality(DictKeys(ret.out.ret.items))

\* a BaseModel without bases whose auto is False and whose name is empty:
\* kind is emitted as None, auto as False, name is left out
C7_Witness ==
    /\ pc = "returned"
    /\ ret.fn = "to_dict"
    /\ obj.type_ = PyNone
    /\ obj.auto = PyBool(FALSE)
    /\ obj.name = PyStr("")
    /\ DictVal(ret.out.ret.items, PyStr("type")) = PyNone
    /\ DictVal(ret.out.ret.items, PyStr("auto")) = PyBool(FALSE)
    /\ ~Emitted(ret.out.ret, "name")

-----------------------------------------------------------------------------
(* Properties of OdooMethod (SpecMethod) *)

\* the positional parameters a function declares, in order
Positional(fn) == fn.args.posonlyargs \o fn.args.args

\* C5: the rendered signature has one entry per declared positional
\* parameter, in declaration order; the first n-k are bare names and the i-th
\* default is attached to parameter n-k+i.
C5_SignatureAlignment ==
    (pc = "returned" /\ ret.fn = "_extract_method_signature" /\ ~Raised(ret.out)) =>
        LET params == Positional(source)
            n == Len(params)
            k == Len(source.args.defaults)
            sig == ret.out.ret
        IN  /\ Len(sig) = n
            /\ \A j \in 1..(n - k) : sig[j] = params[j]
            /\ \A i \in 1..k :
                  sig[n - k + i]
                      = params[n - k + i] \o "="
                          \o ast_to_string(source.args.defaults[i], heap).ret

\* the same alignment counted over args.args alone, the only parameters the
\* extractor reads
SignatureAlignedOnArgs ==
    (pc = "returned" /\ ret.fn = "_extract_method_signature" /\ ~Raised(ret.out)) =>
        LET params == source.args.args
            n == Len(params)
            k == Len(source.args.defaults)
            sig == ret.out.ret
        IN  /\ Len(sig) = n
            /\ k <= n
            /\ \A j \in 1..(n - k) : sig[j] = params[j]
            /\ \A i \in 1..k :
                  sig[n - k + i]
                      = params[n - k + i] \o "="
                          \o ast_to_string(source.args.defaults[i], heap).ret

IsRendered(dec) == dec.kind \in {"Name", "Attribute", "Call"}

HasTarget(dec) == dec.kind = "Call" /\ dec.func.kind \in {"Name", "Attribute"}

\* the name a Name or Attribute expression resolves to
TargetName(e) == IF e.kind = "Name" THEN e.id ELSE e.value.id \o "." \o e.attr

\* C9: the decorators are listed in declaration order and each entry comes
\* from its own decorator expression: a name, "object.attr", or the target
\* of that same call followed by its arguments in parentheses; the name of a
\* call decorator is never taken from an earlier decorator.
C9_DecoratorOwnExpression ==
    (pc = "returned" /\ ret.fn = "_extract_decorators" /\ ~Raised(ret.out)) =>
        LET kept == SelectSeq(source.decorator_list, IsRendered)
            out == ret.out.ret
        IN  /\ Len(out) = Len(kept)
            /\ \A j \in 1..Len(kept) :
                  IF kept[j].kind # "Call" THEN out[j] = TargetName(kept[j])
                  ELSE IF HasTarget(kept[j])
                  THEN out[j] = TargetName(kept[j].func) \o "("
                         \o Join(", ", _extract_decorator_signature(kept[j], heap).ret)
                         \o ")"
                  ELSE \A i \in 1..(j - 1) : ~StartsWith(out[j], out[i])

====
